---- MODULE Spec2Model ----
(***************************************************************************)
(* Model of pyrsync: src/pyrsync/__main__.py (entry point),                *)
(* src/pyrsync/backup.py (BackupLocation, BackupJob, Backup) and           *)
(* src/pyrsync/rotate.py (start_rotation).                                 *)
(*                                                                         *)
(* The file system (state directory, `current` link), the clock and the    *)
(* external commands (ping, wake-on-lan, ssh, rsync) are the environment:  *)
(* their results are drawn nondeterministically.  Python exceptions are    *)
(* modelled as the code raises them: an operator that models a method      *)
(* returns a record whose field `raised` names the exception ("none" when  *)
(* the method returns normally).                                           *)
(***************************************************************************)
EXTENDS Integers, Sequences, FiniteSets, TLC

\* ------------------------------------------------------------------ bounds
NumJobs == 2
MaxDay == 2

\* range(0,5) of __AvailabilityTest__
WakeAttempts == 5

\* ------------------------------------------------------------- data sets
Range(s) == {s[i] : i \in DOMAIN s}

\* A path is the sequence of its segments; a trailing "" is a trailing "/":
\* "a/b/", "a/b" and "c".
Paths == {<<"a", "b", "">>, <<"a", "b">>, <<"c">>}

\* settings['target_dir'] / settings['backup_root'] of the configuration
TargetDir == <<"t">>

\* sys.argv[2:] of one start of the program
ArgLists ==
    {<<>>, <<"--dry-run">>, <<"--force", "-v">>, <<"--force", "--dry-run", "--force">>}

\* exit statuses of the transfer tool
ExitCodes == {0, 23}

\* general_settings: a remote source (user and host set) or a local one
Locations ==
    {[source_user |-> "u", source_host |-> "h", hwaddr |-> "aa:bb",
      target_user |-> "", target_host |-> "", backup_root |-> TargetDir],
     [source_user |-> "", source_host |-> "", hwaddr |-> "",
      target_user |-> "", target_host |-> "", backup_root |-> TargetDir]}

\* datetime.now().strftime('%Y-%m-%d') of day number d
strftime(d) ==
    IF d = 1 THEN "2024-01-10"
    ELSE IF d = 2 THEN "2024-01-11"
    ELSE IF d = 3 THEN "2024-01-12"
    ELSE "2024-01-13"

\* os.path.normpath: drops empty segments
RECURSIVE normpath(_)
normpath(p) ==
    IF p = <<>> THEN <<>>
    ELSE IF Head(p) = "" THEN normpath(Tail(p))
    ELSE <<Head(p)>> \o normpath(Tail(p))

\* os.path.basename: the text after the last separator
basename(p) == IF p = <<>> THEN "" ELSE p[Len(p)]

\* os.path.join(a, b, c) of a directory, one segment and one segment:
\* an empty middle segment adds nothing
join3(a, b, c) == a \o (IF b = "" THEN <<>> ELSE <<b>>) \o <<c>>

\* list.remove(x): drops the first occurrence only
RECURSIVE RemoveFirst(_, _)
RemoveFirst(s, x) ==
    IF s = <<>> THEN <<>>
    ELSE IF Head(s) = x THEN Tail(s)
    ELSE <<Head(s)>> \o RemoveFirst(Tail(s), x)

VARIABLES
    today,      \* the calendar day of the system clock
    stateDir,   \* the state directory: file name (hash) -> content
    current,    \* target of {backup_root}/current, "" when the link is missing
    rotations,  \* the calls of start_rotation made so far
    gs,         \* BackupLocation of the configuration file
    cfg,        \* the job sections of the configuration file: source_dir of each
    pc,         \* position of the process
    attempt,    \* 1: the try of main(), 2: its except
    argv,       \* sys.argv[2:] of the running process
    extra,      \* extra_arguments of the current Backup(...)
    jobs,       \* self.jobs of the current Backup
    idx,        \* position of the loop of __call__
    outcome,    \* what became of each job of the current Backup
    procs,      \* the external commands issued for each job, in order
    attempted,  \* history: the last job taken to self.rsync(job) today by an
                \* earlier process (earlier = TRUE) and by the running one
                \* (earlier = FALSE), for processes started with neither
                \* --force nor --dry-run
    settled     \* history: the jobs that the try of the running process took
                \* to Skipped, Unreachable, Succeeded or Failed before the
                \* except of main() started the batch again

vars ==
    <<today, stateDir, current, rotations, gs, cfg, pc, attempt, argv,
      extra, jobs, idx, outcome, procs, attempted, settled>>

JobIds == 1..NumJobs

Pending == [state |-> "Pending", exc |-> "none", code |-> 0, xfer |-> FALSE]

\* The messages of execute_backup and __call__ that end a job's turn
Terminal == {"Skipped", "Unreachable", "Succeeded", "Failed"}

\* ---------------------------------------------------------------- BackupJob
create_hash(source_dir) == <<"sha1">> \o source_dir

get_new_id(now) == strftime(now)

get_previous_id(dir, state_dir, source_dir) ==
    LET sf == create_hash(source_dir)
    IN  IF sf \in DOMAIN dir THEN dir[sf] ELSE ""

get_basename(source_dir) == basename(normpath(source_dir))

get_previous_target(target_dir, prev_id, subfolder) ==
    join3(target_dir, prev_id, subfolder)

get_backup_source(loc, source_dir) ==
    IF loc.source_user # "" /\ loc.source_host # ""
    THEN [user |-> loc.source_user, host |-> loc.source_host, path |-> source_dir]
    ELSE [user |-> "", host |-> "", path |-> source_dir]

get_backup_target(loc, target_dir, new_id, subfolder) ==
    LET backup_path == join3(target_dir, new_id, subfolder)
    IN  IF loc.target_user # "" /\ loc.target_host # ""
        THEN [user |-> loc.target_user, host |-> loc.target_host, path |-> backup_path]
        ELSE [user |-> "", host |-> "", path |-> backup_path]

\* BackupJob.__init__: `force` is set only when the flag is given ("unset"
\* otherwise: the else branch assigns self.foce)
BackupJob(loc, source_dir, rsync_args, now, dir) ==
    LET new_id == get_new_id(now)
        prev_id == get_previous_id(dir, loc.backup_root, source_dir)
        subfolder == get_basename(source_dir)
    IN  [source_dir |-> source_dir,
         target_dir |-> TargetDir,
         new_id |-> new_id,
         prev_id |-> prev_id,
         subfolder |-> subfolder,
         prev_target |-> get_previous_target(TargetDir, prev_id, subfolder),
         backup_source |-> get_backup_source(loc, source_dir),
         backup_target |-> get_backup_target(loc, TargetDir, new_id, subfolder),
         rsync_exclude_list |-> loc.backup_root \o <<"rsync-exclude-list.txt">>,
         dry_run |-> "--dry-run" \in Range(rsync_args),
         force |-> IF "--force" \in Range(rsync_args) THEN "True" ELSE "unset",
         extra_rsync_args |->
             IF "--force" \in Range(rsync_args)
             THEN RemoveFirst(rsync_args, "--force")
             ELSE rsync_args]

\* ------------------------------------------------------ external commands
\* One entry of the log of external commands: cmd is "ping", "wol", "ssh"
\* or "rsync"; what tells the two ssh commands and the two rsync passes
\* apart; status is the exit status; args the argument list (rsync only).
Proc(cmd, what, status, args) ==
    [cmd |-> cmd, what |-> what, status |-> status, args |-> args]

\* One element of an argument list
Arg(opt) == [opt |-> opt, user |-> "", host |-> "", path |-> <<>>]
PathArg(opt, path) == [opt |-> opt, user |-> "", host |-> "", path |-> path]
SpecArg(spec) == [opt |-> "", user |-> spec.user, host |-> spec.host, path |-> spec.path]

\* What the environment answers while one job is processed:
\*   first   the first ping succeeds
\*   wk      the re-probe that succeeds (0: none of them); drawn from
\*           WakeOutcomes: none, or the first one
\*   acc     the ssh echo prints something
\*   dir     the ssh directory test exits 1
\*   out, rc    stdout lines / exit status of the file-count pass of rsync
\*   out2, rc2  stdout lines / exit status of the main pass of rsync
\* Answers nobody asks for are fixed, so that each behaviour of the
\* environment is drawn once.
WakeOutcomes == {0, 1}

Env ==
    {e \in [first : BOOLEAN, wk : WakeOutcomes, acc : BOOLEAN, dir : BOOLEAN,
            out : BOOLEAN, rc : ExitCodes, out2 : BOOLEAN, rc2 : ExitCodes] :
        /\ e.first => e.wk = 0
        /\ ~e.first => ~e.acc
        /\ ~e.acc => ~e.dir
        /\ ~e.dir => (~e.out /\ e.rc = 0)
        /\ (e.out \/ ~e.dir) => (~e.out2 /\ e.rc2 = 0)}

\* ------------------------------------------------------------------ Backup
\* __AvailabilityTest__: True only when the first ping succeeds; after the
\* wake loop the function falls off its end (None), whatever the re-probes said.
\* A ping with no host to ping cannot succeed.
\* __AvailabilityTest__ without the break of lines 317-318: the loop goes on
\* waking and probing after a re-probe found the host
AvailabilityTest_noBreak(host, hwaddr, e) ==
    LET first_ok == host # "" /\ e.first
        loop == [i \in 1..(2 * WakeAttempts) |->
                    IF i % 2 = 1 THEN Proc("wol", hwaddr, 0, <<>>)
                    ELSE Proc("ping", "-W10", IF e.wk # 0 /\ i >= 2 * e.wk THEN 0 ELSE 1, <<>>)]
    IN  IF ~first_ok
        THEN [ret |-> FALSE, procs |-> <<Proc("ping", "-W2", 1, <<>>)>> \o loop]
        ELSE [ret |-> TRUE, procs |-> <<Proc("ping", "-W2", 0, <<>>)>>]

AvailabilityTest(host, hwaddr, e) ==
    LET first_ok == host # "" /\ e.first
        n == IF e.wk = 0 THEN WakeAttempts ELSE e.wk
        loop == [i \in 1..(2 * n) |->
                    IF i % 2 = 1 THEN Proc("wol", hwaddr, 0, <<>>)
                    ELSE Proc("ping", "-W10", IF i = 2 * n /\ e.wk # 0 THEN 0 ELSE 1, <<>>)]
    IN  IF ~first_ok
        THEN [ret |-> FALSE, procs |-> <<Proc("ping", "-W2", 1, <<>>)>> \o loop]
        ELSE [ret |-> TRUE, procs |-> <<Proc("ping", "-W2", 0, <<>>)>>]

AccessTest(host, username, e) ==
    [ret |-> e.acc, procs |-> <<Proc("ssh", "echo True", IF e.acc THEN 0 ELSE 255, <<>>)>>]

RemoteDirTest(host, username, remote_dir, e) ==
    [ret |-> e.dir, procs |-> <<Proc("ssh", "[ ! -d ]", IF e.dir THEN 1 ELSE 0, <<>>)>>]

\* __RemoteServerCheck__ with _ret starting as True: nothing sets it to False
RemoteServerCheck_retTrue(loc, job, e) ==
    LET av == AvailabilityTest(loc.source_host, loc.hwaddr, e)
        ac == AccessTest(loc.source_host, loc.source_user, e)
        rd == RemoteDirTest(loc.source_host, loc.source_user, job.source_dir, e)
    IN  IF av.ret
        THEN IF ac.ret
             THEN [ret |-> TRUE, procs |-> av.procs \o ac.procs \o rd.procs]
             ELSE [ret |-> TRUE, procs |-> av.procs \o ac.procs]
        ELSE [ret |-> TRUE, procs |-> av.procs]

\* __RemoteServerCheck__ with the three tests run one after the other
\* instead of nested: every stage is invoked
RemoteServerCheck_allStages(loc, job, e) ==
    LET av == AvailabilityTest(loc.source_host, loc.hwaddr, e)
        ac == AccessTest(loc.source_host, loc.source_user, e)
        rd == RemoteDirTest(loc.source_host, loc.source_user, job.source_dir, e)
    IN  [ret |-> av.ret /\ ac.ret /\ rd.ret,
         procs |-> av.procs \o ac.procs \o rd.procs]

\* __RemoteServerCheck__, lines 353-366: the three tests, nested
RemoteServerCheck(loc, job, e) ==
    LET host == loc.source_host
        username == loc.source_user
        hwaddr == loc.hwaddr
        remote_dir == job.source_dir
        av == AvailabilityTest(host, hwaddr, e)
        ac == AccessTest(host, username, e)
        rd == RemoteDirTest(host, username, remote_dir, e)
    IN  IF av.ret
        THEN IF ac.ret
             THEN IF rd.ret
                  THEN [ret |-> TRUE, procs |-> av.procs \o ac.procs \o rd.procs]
                  ELSE [ret |-> FALSE, procs |-> av.procs \o ac.procs \o rd.procs]
             ELSE [ret |-> FALSE, procs |-> av.procs \o ac.procs]
        ELSE [ret |-> FALSE, procs |-> av.procs]

\* send_message: reads self.source_user, which no Backup object has
send_message(e) == [raised |-> "AttributeError"]

BaseFlags ==
    <<Arg("rsync"), Arg("--recursive"), Arg("--links"), Arg("--times"),
      Arg("--itemize-changes"), Arg("--devices"), Arg("--specials"),
      Arg("--delete"), Arg("--human-readable"), Arg("--delete-excluded"),
      Arg("--ignore-existing"), Arg("--progress"), Arg("--stats")>>

rsync_cmd(job) ==
    BaseFlags
    \o <<PathArg("--exclude-from=", job.rsync_exclude_list)>>
    \o [i \in 1..Len(job.extra_rsync_args) |-> Arg(job.extra_rsync_args[i])]
    \o <<PathArg("--link-dest=", job.prev_target)>>
    \o <<SpecArg(job.backup_source)>>
    \o <<SpecArg(job.backup_target)>>

\* Lines 413-419: the list of the file-count pass.  list.append returns None
\* and appends to the one list both names refer to.
count_cmd(job) ==
    IF job.dry_run
    THEN [none |-> FALSE, list |-> rsync_cmd(job)]
    ELSE [none |-> TRUE, list |-> <<>>]

main_cmd(job) ==
    IF job.dry_run
    THEN rsync_cmd(job)
    ELSE Append(rsync_cmd(job), Arg("--dry-run "))

\* Backup.rsync.  raised: "none" when it returns, else the exception;
\* code: the exit status a CalledProcessError carries.
rsync(job, e) ==
    LET c == count_cmd(job)
        p1 == Proc("rsync", "count", e.rc, c.list)
        p2 == Proc("rsync", "main", e.rc2, main_cmd(job))
        sm == send_message(e)
    IN  IF c.none
        THEN \* Popen(None)
             [raised |-> "TypeError", code |-> 0, procs |-> <<>>]
        ELSE IF e.out
        THEN \* re.findall of a str pattern on a bytes line
             [raised |-> "TypeError", code |-> 0, procs |-> <<p1>>]
        ELSE IF sm.raised # "none"
        THEN [raised |-> sm.raised, code |-> 0, procs |-> <<p1>>]
        ELSE IF e.out2
        THEN \* 'ir-chk' in line, of a bytes line
             [raised |-> "TypeError", code |-> 0, procs |-> <<p1, p2>>]
        ELSE IF e.rc2 # 0
        THEN [raised |-> "CalledProcessError", code |-> e.rc2, procs |-> <<p1, p2>>]
        ELSE [raised |-> "none", code |-> 0, procs |-> <<p1, p2>>]

\* Backup.prep_rsync (creates {target_dir}/{new_id}): reads self.target_host,
\* which no Backup object has; nothing in the program calls it
prep_rsync(target_dir, new_id) ==
    [raised |-> "AttributeError", procs |-> <<>>]

\* Backup.update_state: calls self.__create_hash__, which Backup does not
\* define, before it opens the state file
update_state(dir, source_dir, new_id, target_dir) ==
    [raised |-> "AttributeError", stateDir |-> dir]

\* Backup.update_symlink: reads self.backup_root, which no Backup object has,
\* before the try
update_symlink(cur, new_id) ==
    [raised |-> "AttributeError", current |-> cur]

\* rotate.start_rotation: hands the scheme and the exclude list to the
\* rotate_backups library (not part of this repository)
start_rotation(rots, path, dry_run, exclude) ==
    IF path # <<>>
    THEN Append(rots, [path |-> path,
                       exclude_list |-> IF exclude # <<>> THEN <<exclude>> ELSE <<>>,
                       dry_run |-> dry_run])
    ELSE rots

\* The test of line 232 with its comparison lost: every job is due
BackupDue_always(job) == TRUE

\* Line 232: the backup is due when today's id differs from the recorded one
BackupDue(job) == job.new_id # job.prev_id

\* Backup.execute_backup.  new_id = "" stands for False.
execute_backup(loc, job, e, dir, rots) ==
    IF BackupDue(job)
    THEN LET chk == RemoteServerCheck(loc, job, e)
             x == rsync(job, e)
             us == update_state(dir, job.source_dir, job.new_id, job.target_dir)
             no == [new_id |-> "", update |-> FALSE, code |-> 0,
                    stateDir |-> dir, rotations |-> rots]
         IN  IF chk.ret
             THEN IF x.raised # "none"
                  THEN [branch |-> "transfer", xfer |-> TRUE, raised |-> x.raised,
                        procs |-> chk.procs \o x.procs, code |-> x.code] @@ no
                  ELSE IF job.dry_run
                  THEN [branch |-> "transfer", xfer |-> TRUE, raised |-> "none",
                        procs |-> chk.procs \o x.procs, code |-> 0,
                        new_id |-> job.new_id, update |-> TRUE,
                        stateDir |-> dir, rotations |-> rots]
                  ELSE IF us.raised # "none"
                  THEN [branch |-> "transfer", xfer |-> TRUE, raised |-> us.raised,
                        procs |-> chk.procs \o x.procs] @@ no
                  ELSE [branch |-> "transfer", xfer |-> TRUE, raised |-> "none",
                        procs |-> chk.procs \o x.procs, code |-> 0,
                        new_id |-> job.new_id, update |-> TRUE,
                        stateDir |-> us.stateDir,
                        rotations |-> start_rotation(rots, job.target_dir, FALSE,
                                                     job.prev_target)]
             ELSE [branch |-> "unreachable", xfer |-> FALSE, raised |-> "none",
                   procs |-> chk.procs] @@ no
    ELSE [branch |-> "skipped", xfer |-> FALSE, raised |-> "none", procs |-> <<>>,
          code |-> 0, new_id |-> "", update |-> FALSE,
          stateDir |-> dir, rotations |-> rots]

\* One turn of the loop of Backup.__call__ (lines 209-220)
call_body(loc, job, e, dir, rots, cur) ==
    LET r == execute_backup(loc, job, e, dir, rots)
        sl == update_symlink(cur, r.new_id)
    IN  IF r.raised = "none" /\ r.new_id # "" /\ r.update /\ ~job.dry_run
        THEN IF sl.raised # "none"
             THEN [r EXCEPT !.raised = sl.raised] @@ [current |-> cur]
             ELSE r @@ [current |-> sl.current]
        ELSE r @@ [current |-> cur]

\* What the operator sees of one job: the message logged, or the exception
Classify(r) ==
    [state |-> IF r.raised = "CalledProcessError" THEN "Failed"
               ELSE IF r.raised # "none" THEN "Error"
               ELSE IF r.new_id # "" THEN "Succeeded"
               ELSE IF r.branch = "skipped" THEN "Skipped"
               ELSE "Unreachable",
     exc |-> r.raised,
     code |-> r.code,
     xfer |-> r.xfer]

\* ------------------------------------------------------------ the program
\* The job sections of the configuration file: the first names "a/b/", the
\* others any of the paths (the same directory may be named twice, with or
\* without the trailing separator).
Configs == {f \in [JobIds -> Paths] : f[1] = <<"a", "b", "">>}

\* The state the program is started in: a configuration file, a state
\* directory holding, for some sources, the id of an earlier day's backup.
Init ==
    /\ today = 1
    /\ cfg \in Configs
    /\ stateDir \in UNION {[K -> {strftime(1)}] :
                              K \in SUBSET {create_hash(cfg[j]) : j \in JobIds}}
    /\ current = IF DOMAIN stateDir = {} THEN "" ELSE strftime(1)
    /\ rotations = <<>>
    /\ gs \in Locations
    /\ pc = "idle"
    /\ attempt = 1
    /\ argv = <<>>
    /\ extra = <<>>
    /\ jobs = <<>>
    /\ idx = 1
    /\ outcome = [j \in JobIds |-> Pending]
    /\ procs = [j \in JobIds |-> <<>>]
    /\ attempted = {}
    /\ settled = {}

\* The system clock passes midnight.  The program reads the clock only in
\* BackupJob.__init__, so midnight is placed before a construction: a
\* midnight between two processes is one before the first construction of
\* the second.
Tick ==
    /\ today < MaxDay
    /\ pc = "construct"
    /\ today' = today + 1
    /\ attempted' = {a \in attempted : a.id = strftime(today + 1)}
    /\ UNCHANGED <<stateDir, current, rotations, gs, cfg, pc, attempt, argv,
                   extra, jobs, idx, outcome, procs, settled>>

\* main(): the program is started with extra arguments args; the try
\* calls Backup(settings_file, extra_arguments = args)
Invoke ==
    /\ pc \in {"idle", "done", "crashed"}
    /\ \E args \in ArgLists :
        /\ argv' = args
        /\ extra' = args
    /\ attempt' = 1
    /\ jobs' = <<>>
    /\ idx' = 1
    /\ outcome' = [j \in JobIds |-> Pending]
    /\ procs' = [j \in JobIds |-> <<>>]
    /\ pc' = "construct"
    /\ attempted' = IF \E a \in attempted : ~a.earlier
                    THEN {[a EXCEPT !.earlier = TRUE] : a \in {b \in attempted : ~b.earlier}}
                    ELSE attempted
    /\ settled' = {}
    /\ UNCHANGED <<today, stateDir, current, rotations, gs, cfg>>

\* Backup.__init__, lines 197-204: one BackupJob per job section, then
\* self.__call__()
ConstructJob ==
    /\ pc = "construct"
    /\ Len(jobs) < NumJobs
    /\ jobs' = Append(jobs, BackupJob(gs, cfg[Len(jobs) + 1], extra, today, stateDir))
    /\ pc' = IF Len(jobs) + 1 = NumJobs THEN "call" ELSE "construct"
    /\ UNCHANGED <<today, stateDir, current, rotations, gs, cfg, attempt, argv,
                   extra, idx, outcome, procs, attempted, settled>>

\* One turn of the loop of __call__.  An exception leaves the loop, __call__
\* and Backup.__init__: main() catches it in the try, nobody in the except.
ExecuteBackup ==
    /\ pc = "call"
    /\ idx <= Len(jobs)
    /\ \E e \in Env :
        LET job == jobs[idx]
            r == call_body(gs, job, e, stateDir, rotations, current)
        IN  /\ stateDir' = r.stateDir
            /\ rotations' = r.rotations
            /\ current' = r.current
            /\ procs' = [procs EXCEPT ![idx] = r.procs]
            /\ outcome' = [outcome EXCEPT ![idx] = Classify(r)]
            /\ attempted' =
                 IF r.xfer /\ ~("--force" \in Range(argv)) /\ ~("--dry-run" \in Range(argv))
                 THEN {a \in attempted : a.earlier}
                      \cup {[key |-> create_hash(job.source_dir),
                                       id |-> job.new_id, earlier |-> FALSE]}
                 ELSE attempted
            /\ IF r.raised = "none"
               THEN /\ idx' = idx + 1
                    /\ pc' = pc
               ELSE /\ idx' = idx
                    /\ pc' = IF attempt = 1 THEN "caught" ELSE "crashed"
    /\ UNCHANGED <<today, gs, cfg, attempt, argv, extra, jobs, settled>>

\* __call__ lines 222-223 (self.live is False), Backup.__init__ and main() return
Return ==
    /\ pc = "call"
    /\ idx > Len(jobs)
    /\ pc' = "done"
    /\ UNCHANGED <<today, stateDir, current, rotations, gs, cfg, attempt, argv,
                   extra, jobs, idx, outcome, procs, attempted, settled>>

\* main(), the except: Backup(settings_file, extra_arguments = [])
Fallback ==
    /\ pc = "caught"
    /\ attempt' = 2
    /\ extra' = <<>>
    /\ jobs' = <<>>
    /\ idx' = 1
    /\ outcome' = [j \in JobIds |-> Pending]
    /\ procs' = [j \in JobIds |-> <<>>]
    /\ pc' = "construct"
    /\ settled' = {j \in DOMAIN jobs : outcome[j].state \in Terminal}
    /\ UNCHANGED <<today, stateDir, current, rotations, gs, cfg, argv, attempted>>

Next ==
    \/ Tick
    \/ Invoke
    \/ ConstructJob
    \/ ExecuteBackup
    \/ Return
    \/ Fallback

Spec == Init /\ [][Next]_vars

TypeOK ==
    /\ today \in 1..MaxDay
    /\ pc \in {"idle", "construct", "call", "caught", "done", "crashed"}
    /\ attempt \in {1, 2}
    /\ idx \in 1..(NumJobs + 1)
    /\ Len(jobs) <= NumJobs

\* ------------------------------------------------------------------ claims
\* The current Backup(...) has ended: it returned, or an exception left it
Over == pc \in {"caught", "done", "crashed"}

\* Job j of the current Backup has been through its turn of the loop
Processed(j) == j \in DOMAIN jobs /\ outcome[j].state # "Pending"

\* The turn of the loop of job j is being taken
JobStep(j) ==
    /\ pc = "call"
    /\ idx = j
    /\ outcome[j].state = "Pending"
    /\ outcome'[j].state # "Pending"

\* Exit statuses of the transfer-tool processes spawned for job j
TransferExits(log) == {p.status : p \in {q \in Range(log) : q.cmd = "rsync"}}

ForceGiven == "--force" \in Range(extra)

\* Job j was taken to the transfer (self.rsync(job) was called) in a run
\* without --dry-run, and no transfer process of it exited non-zero
TransferNotFailed(j) ==
    /\ Processed(j)
    /\ outcome[j].xfer
    /\ ~jobs[j].dry_run
    /\ TransferExits(procs[j]) \subseteq {0}

\* C1: a job whose transfer process exits with a non-zero status k ends in
\* Failed carrying exit code k, its turn leaves the state directory as it was
\* and does not invoke rotation.
C1_NonZeroExitIsFailed ==
    [][\A j \in JobIds :
         (JobStep(j) /\ TransferExits(procs'[j]) \ {0} # {})
            => /\ outcome'[j].state = "Failed"
               /\ outcome'[j].code \in TransferExits(procs'[j]) \ {0}
               /\ stateDir' = stateDir
               /\ rotations' = rotations]_vars

\* C2: when the batch has ended, every job that comes after a job that ended
\* Unreachable, or whose transfer exited non-zero, has been processed.
C2_BatchContinues ==
    Over =>
        \A i \in DOMAIN jobs : \A j \in DOMAIN jobs :
            (/\ i < j
             /\ \/ outcome[i].state = "Unreachable"
                \/ TransferExits(procs[i]) \ {0} # {})
                => outcome[j].state # "Pending"

\* C3: a processed job is Skipped exactly when its new id equals the recorded
\* id and the force flag is absent (so a forced job with equal ids is not
\* skipped).
C3_SkipIffSameIdAndNoForce ==
    \A j \in JobIds :
        Processed(j) =>
            (outcome[j].state = "Skipped"
                <=> (jobs[j].new_id = jobs[j].prev_id /\ ~ForceGiven))

\* C4: a job of a process started without the force flag, whose source an
\* earlier process of the same day (also without force or dry-run) already
\* took to the transfer, goes straight to Skipped and spawns nothing.
C4_SecondRunSkipped ==
    \A j \in JobIds :
        (/\ Processed(j)
         /\ ~("--force" \in Range(argv))
         /\ \E a \in attempted :
                /\ a.earlier
                /\ a.key = create_hash(jobs[j].source_dir)
                /\ a.id = jobs[j].new_id)
            => (outcome[j].state = "Skipped" /\ procs[j] = <<>>)

\* C5: the turn of a job whose recorded id equals today's id, in a run
\* without the force flag, ends Skipped, issues no external command at all,
\* invokes no rotation and leaves the state directory and `current` as
\* they were.
C5_SkippedSpawnsNothing ==
    [][\A j \in JobIds :
         (/\ JobStep(j)
          /\ jobs[j].new_id = jobs[j].prev_id
          /\ ~ForceGiven)
            => /\ outcome'[j].state = "Skipped"
               /\ procs'[j] = <<>>
               /\ rotations' = rotations
               /\ stateDir' = stateDir
               /\ current' = current]_vars

\* A job was skipped in a run without the force flag
C5_Witness ==
    \E j \in JobIds :
        /\ Processed(j)
        /\ outcome[j].state = "Skipped"
        /\ jobs[j].new_id = jobs[j].prev_id
        /\ ~ForceGiven

\* C6: once a non-dry-run job has been through a transfer that did not fail,
\* the state record of its source holds the job's new id, and that is what
\* the next read of the previous id returns.
C6_StateRecordHoldsNewId ==
    \A j \in JobIds :
        TransferNotFailed(j) =>
            /\ create_hash(jobs[j].source_dir) \in DOMAIN stateDir
            /\ get_previous_id(stateDir, gs.backup_root, jobs[j].source_dir)
                 = jobs[j].new_id

\* C8: once a non-dry-run job has been through a transfer that did not fail,
\* rotation has been invoked with the job's new snapshot as the excluded path.
C8_RotationExcludesNewSnapshot ==
    \A j \in JobIds :
        TransferNotFailed(j) =>
            \E i \in DOMAIN rotations :
                rotations[i].exclude_list = <<jobs[j].backup_target.path>>

\* The entries of a log of external commands issued by cmd / cmd and what
Cmds(log, cmd) == {i \in DOMAIN log : log[i].cmd = cmd}
CmdsOf(log, cmd, what) == {i \in DOMAIN log : log[i].cmd = cmd /\ log[i].what = what}

\* Some probe of the log found the host
SomePingOk(log) == \E i \in Cmds(log, "ping") : log[i].status = 0

\* The access test found the host open / the directory test found the directory
AccessOk(log) == \E i \in CmdsOf(log, "ssh", "echo True") : log[i].status = 0
DirOk(log) == \E i \in CmdsOf(log, "ssh", "[ ! -d ]") : log[i].status = 1

RemoteConfigured == gs.source_host # "" /\ gs.source_user # ""

\* C11: the turn of a job of a remote source for which the first probe and
\* the re-probes after all 5 wake signals fail ends Unreachable, leaves the
\* state directory as it was and spawns no transfer process.
C11_AllWakesFailIsUnreachable ==
    [][\A j \in JobIds :
         (/\ JobStep(j)
          /\ RemoteConfigured
          /\ Cardinality(Cmds(procs'[j], "wol")) = WakeAttempts
          /\ ~SomePingOk(procs'[j]))
            => /\ outcome'[j].state = "Unreachable"
               /\ ~outcome'[j].xfer
               /\ Cmds(procs'[j], "rsync") = {}
               /\ stateDir' = stateDir]_vars

\* A job of a remote source ended Unreachable after 5 wake signals and 6
\* failed probes
C11_Witness ==
    \E j \in JobIds :
        /\ Processed(j)
        /\ RemoteConfigured
        /\ Cardinality(Cmds(procs[j], "wol")) = WakeAttempts
        /\ Cardinality(Cmds(procs[j], "ping")) = WakeAttempts + 1
        /\ ~SomePingOk(procs[j])
        /\ outcome[j].state = "Unreachable"

\* C12: a job is taken to the transfer only when a probe found the host, the
\* access test passed and the directory test passed; when no probe found
\* the host, neither ssh command is issued; when the access test failed, the
\* directory test is not issued.
C12_ReadinessShortCircuits ==
    \A j \in JobIds :
        Processed(j) =>
            /\ outcome[j].xfer =>
                  (SomePingOk(procs[j]) /\ AccessOk(procs[j]) /\ DirOk(procs[j]))
            /\ ~SomePingOk(procs[j]) => Cmds(procs[j], "ssh") = {}
            /\ ~AccessOk(procs[j]) => CmdsOf(procs[j], "ssh", "[ ! -d ]") = {}

\* A job whose access test failed: the directory test was not issued and
\* the job was not taken to the transfer
C12_Witness ==
    \E j \in JobIds :
        /\ Processed(j)
        /\ SomePingOk(procs[j])
        /\ CmdsOf(procs[j], "ssh", "echo True") # {}
        /\ ~AccessOk(procs[j])
        /\ CmdsOf(procs[j], "ssh", "[ ! -d ]") = {}
        /\ outcome[j].state = "Unreachable"

\* C13: for a job that was probed, the availability stage passed (the access
\* test, which follows it, was issued) exactly when some probe, the first one
\* or a re-probe after a wake signal, found the host.
C13_AvailabilityPassesOnReprobe ==
    \A j \in JobIds :
        (Processed(j) /\ RemoteConfigured /\ Cmds(procs[j], "ping") # {})
            => (CmdsOf(procs[j], "ssh", "echo True") # {} <=> SomePingOk(procs[j]))

\* C14: a job of a local source (no remote host, no remote user) that is due
\* is taken to the transfer without any probe, wake signal or remote command.
C14_LocalSkipsReadiness ==
    \A j \in JobIds :
        (/\ Processed(j)
         /\ gs.source_host = ""
         /\ gs.source_user = ""
         /\ outcome[j].state # "Skipped")
            => /\ Cmds(procs[j], "ping") = {}
               /\ Cmds(procs[j], "wol") = {}
               /\ Cmds(procs[j], "ssh") = {}
               /\ outcome[j].xfer

\* The paths given with the link-dest option in an argument list
LinkDests(args) == {a.path : a \in {b \in Range(args) : b.opt = "--link-dest="}}

\* C15: every transfer process of a job with no state record is started
\* without a link-dest option; every transfer process of a job with recorded
\* id prev_id is started with link-dest = {target_dir}/{prev_id}/{subfolder}.
C15_LinkDestOnlyWithPrevious ==
    \A j \in JobIds :
        Processed(j) =>
            \A i \in Cmds(procs[j], "rsync") :
                IF jobs[j].prev_id = ""
                THEN LinkDests(procs[j][i].args) = {}
                ELSE LinkDests(procs[j][i].args)
                        = {TargetDir \o <<jobs[j].prev_id, jobs[j].subfolder>>}

\* C16: once a non-dry-run job has been through a transfer that did not fail,
\* `current` points to the snapshot directory of the job's new id.
C16_CurrentPointsToNewSnapshot ==
    \A j \in JobIds :
        TransferNotFailed(j) => current = jobs[j].new_id

\* C17: a job that reached a terminal state in a process is not taken through
\* the loop again by that process: no external command is issued for it again.
C17_TerminalJobNotProcessedAgain ==
    \A j \in JobIds :
        (attempt = 2 /\ j \in settled) => (~Processed(j) /\ procs[j] = <<>>)

\* C19: two jobs whose source paths are spellings of one path (equal after
\* normalisation) have the same identity, hence the same state record and the
\* same previous id.
C19_IdentityNormalised ==
    \A j \in DOMAIN jobs : \A k \in DOMAIN jobs :
        normpath(jobs[j].source_dir) = normpath(jobs[k].source_dir)
            => /\ create_hash(jobs[j].source_dir) = create_hash(jobs[k].source_dir)
               /\ get_previous_id(stateDir, gs.backup_root, jobs[j].source_dir)
                    = get_previous_id(stateDir, gs.backup_root, jobs[k].source_dir)

\* The options of an argument list
Opts(args) == {a.opt : a \in Range(args)}

\* C20: no transfer process of any job is started with the force flag in its
\* argument list, and every other extra argument of the run is in it.
C20_ForceNeverPassed ==
    \A j \in JobIds :
        Processed(j) =>
            \A i \in Cmds(procs[j], "rsync") :
                /\ "--force" \notin Opts(procs[j][i].args)
                /\ Range(extra) \ {"--force"} \subseteq Opts(procs[j][i].args)

\* C21: in the availability check of every processed job at most 5 wake
\* signals are sent, none when the first probe found the host, each wake
\* signal is followed by exactly one re-probe, and no wake signal comes after
\* a probe that found the host.
C21_WakeLoopBounded ==
    \A j \in JobIds :
        Processed(j) =>
            LET log == procs[j]
                W == Cmds(log, "wol")
            IN  /\ Cardinality(W) <= WakeAttempts
                /\ (log # <<>> /\ log[1].cmd = "ping" /\ log[1].status = 0) => W = {}
                /\ \A i \in W :
                      /\ i + 1 \in DOMAIN log
                      /\ log[i + 1].cmd = "ping"
                      /\ (i + 2 \in DOMAIN log => log[i + 2].cmd # "ping")
                /\ \A i \in Cmds(log, "ping") :
                      log[i].status = 0 => \A k \in W : k < i

\* A job whose first probe failed and whose first re-probe found the host:
\* one wake signal, two probes
C21_Witness ==
    \E j \in JobIds :
        /\ Processed(j)
        /\ Cardinality(Cmds(procs[j], "wol")) = 1
        /\ Cardinality(Cmds(procs[j], "ping")) = 2
        /\ procs[j][1].status # 0
        /\ procs[j][3].status = 0

\* The flags that put the transfer tool in dry-run mode, as the code spells them
DryRunOpts == {"--dry-run", "--dry-run "}

\* C22: for every job taken to the transfer, the argument list of the main
\* transfer is the base flags, the exclude-list reference, the extra
\* arguments and the baseline flag, then the source spec and the target spec
\* as its last two elements; for a job not in dry-run mode it holds no
\* dry-run flag after the file-count pass.
C22_MainArgumentList ==
    \A j \in JobIds :
        (Processed(j) /\ outcome[j].xfer) =>
            LET job == jobs[j]
                args == main_cmd(job)
                n == Len(args)
            IN  /\ n >= 2
                /\ args[n - 1] = SpecArg(job.backup_source)
                /\ args[n] = SpecArg(job.backup_target)
                /\ SubSeq(args, 1, n - 2)
                     = BaseFlags
                       \o <<PathArg("--exclude-from=", job.rsync_exclude_list)>>
                       \o [i \in 1..Len(job.extra_rsync_args) |-> Arg(job.extra_rsync_args[i])]
                       \o <<PathArg("--link-dest=", job.prev_target)>>
                /\ ~job.dry_run => Opts(args) \cap DryRunOpts = {}

\* C23: a job whose file-count pass was run also gets its main transfer run,
\* and ends Succeeded or Failed by the exit status of the main transfer.
C23_CountPassNeverAborts ==
    \A j \in JobIds :
        (Processed(j) /\ CmdsOf(procs[j], "rsync", "count") # {}) =>
            /\ CmdsOf(procs[j], "rsync", "main") # {}
            /\ \A i \in CmdsOf(procs[j], "rsync", "main") :
                  outcome[j].state = IF procs[j][i].status = 0 THEN "Succeeded" ELSE "Failed"

\* The commands that create the dated directory of the target: a local
\* mkdir, or the rsync of /dev/null to a remote target
PreCreates(log) ==
    {i \in DOMAIN log : log[i].cmd = "mkdir" \/ (log[i].cmd = "rsync" /\ log[i].what = "touch")}

\* C24: for every job taken to the transfer, the dated directory of the target
\* is created before any transfer process of the job is spawned.
C24_TargetDirPreCreated ==
    \A j \in JobIds :
        (Processed(j) /\ outcome[j].xfer) =>
            \E i \in PreCreates(procs[j]) :
                \A k \in CmdsOf(procs[j], "rsync", "main") \cup CmdsOf(procs[j], "rsync", "count") :
                    i < k

\* C27: two processed jobs of one batch with the same source path make the
\* same skip decision.
C27_SameSourceSameDecision ==
    \A j \in JobIds : \A k \in JobIds :
        (Processed(j) /\ Processed(k) /\ jobs[j].source_dir = jobs[k].source_dir)
            => (outcome[j].state = "Skipped" <=> outcome[k].state = "Skipped")

====
